---- MODULE Spec2Model ----
(***************************************************************************)
(* File-record lifecycle of the SmartStroke backend (src/server.js).       *)
(*                                                                         *)
(* The server keeps two stores with no transaction between them: the       *)
(* upload directory on disk (blobs) and the MongoDB documents of           *)
(* classrooms and users, each embedding an ordered list of file records.   *)
(* Every Express handler is an async function: it runs atomically between  *)
(* its awaits, so a handler is modelled as the steps its awaits cut it     *)
(* into, and the steps of different requests interleave.                   *)
(*                                                                         *)
(* classroom.save() / user.save() send the delta Mongoose computed from    *)
(* the modifications made on the loaded document:                          *)
(*   files.push(x)          $push x, $inc __v          (no __v condition)  *)
(*   file.deleteOne()       $pull {_id}, $inc __v      (no __v condition)  *)
(*   files.splice(i, 1)     $set files = local array, $inc __v,            *)
(*                          only where __v = the loaded __v (VersionError  *)
(*                          otherwise)                                     *)
(*   file.filename = n      $set files.i.filename = n, only where          *)
(*                          __v = the loaded __v (VersionError otherwise)  *)
(***************************************************************************)
EXTENDS Integers, Sequences, FiniteSets, TLC

\* ---------------------------------------------------------------- bounds
NumReqs == 2          \* requests in flight at the same time
MaxRecords == 2       \* file records ever created (_id values)
MaxTime == 1          \* milliseconds the clock advances
MaxNameLen == 3       \* characters of the original names the naming runs draw

\* ------------------------------------------------------- program constants
FileSizeLimit == 10 * 1024 * 1024
OK == 200
NotFound == 404
ServerError == 500
NoResponse == 0       \* the async handler rejected outside any try/catch

Reqs == 1 .. NumReqs
ClassIds == {"c1"}                \* the classrooms of the database
UserIds == {"u1"}                 \* the users of the database
NoClass == "c0"                   \* an id no classroom has
NoUser == "u0"                    \* an id no user has
NoFileId == 0                     \* an _id no file record has
Names == { <<"a", " ", " ", "b">> }       \* the original names of uploaded files
NewNames == { <<"n">> }                   \* the names a rename gives
Sizes == { FileSizeLimit, FileSizeLimit + 1 }
StudentIds == {"s1", "s2", "s3"}                \* the students that join
Code(c) == <<"K">>                        \* the join code of a classroom
CodeInputs == { <<"K">>, <<"k">>, <<"Z">> }   \* the codes a request sends

\* ------------------------------------------------------------ Naming Policy
IsSpace(ch) == ch \in {" ", "\t", "\n"}

RECURSIVE DropSpaces(_)
DropSpaces(s) ==
    IF s # <<>> /\ IsSpace(Head(s)) THEN DropSpaces(Tail(s)) ELSE s

\* originalname.replace(/\s+/g, '_')
RECURSIVE CleanName(_)
CleanName(s) ==
    IF s = <<>> THEN <<>>
    ELSE IF IsSpace(Head(s)) THEN <<"_">> \o CleanName(DropSpaces(Tail(s)))
    ELSE <<Head(s)>> \o CleanName(Tail(s))

Digit(d) == CASE d = 0 -> "0" [] d = 1 -> "1" [] d = 2 -> "2" [] d = 3 -> "3"
              [] d = 4 -> "4" [] d = 5 -> "5" [] d = 6 -> "6" [] d = 7 -> "7"
              [] d = 8 -> "8" [] d = 9 -> "9"

\* the decimal digits of Date.now()
RECURSIVE Decimal(_)
Decimal(n) == IF n < 10 THEN <<Digit(n)>> ELSE Decimal(n \div 10) \o <<Digit(n % 10)>>

\* a storage name that replaces every whitespace character on its own (/\s/g)
StorageNameEach(originalname, t) ==
    Decimal(t) \o <<"-">> \o
        [i \in 1 .. Len(originalname) |->
            IF IsSpace(originalname[i]) THEN "_" ELSE originalname[i]]

\* `${Date.now()}-${cleanName}`
StorageName(originalname, t) == Decimal(t) \o <<"-">> \o CleanName(originalname)

\* `uploads/${req.file.filename}` (v1), req.file.path (v2, v3)
StoredPath(filename) == [dir |-> "uploads", file |-> filename]
\* the file of the upload directory a stored path resolves to
BlobAt(path) == path.file

NoPath == [dir |-> "", file |-> <<>>]
NoRec == [id |-> 0, filename |-> <<>>, path |-> NoPath, uploadDate |-> 0]

Ids(files) == { files[i].id : i \in 1 .. Len(files) }
IndexOf(files, id) ==
    IF id \in Ids(files) THEN CHOOSE i \in 1 .. Len(files) : files[i].id = id ELSE 0
\* files.splice(i) without a count: removes the record and all that follow
RemoveFrom(files, i) == SubSeq(files, 1, i - 1)
\* files.splice(i, 1)
RemoveAt(files, i) == SubSeq(files, 1, i - 1) \o SubSeq(files, i + 1, Len(files))

\* ---------------------------------------------------- Mongoose save deltas
\* a save that puts the new record in front (files.unshift)
SavePushFront(doc, rec) == [files |-> <<rec>> \o doc.files, v |-> doc.v + 1]

\* files.push(rec); save()
SavePush(doc, rec) == [files |-> Append(doc.files, rec), v |-> doc.v + 1]

\* file.deleteOne(); save()
SavePull(doc, id) ==
    [files |-> SelectSeq(doc.files, LAMBDA f : f.id # id), v |-> doc.v + 1]

\* the __v condition of a save that $sets the array or one of its positions
VersionOK(doc, lv) == doc.v = lv

\* files.splice(i, 1); save()
SaveSetArray(doc, larr) == [files |-> larr, v |-> doc.v + 1]

\* a rename that replaces the whole subdocument
SaveSetNameReplace(doc, i, newName) ==
    [doc EXCEPT !.files = [@ EXCEPT ![i] = [NoRec EXCEPT !.filename = newName]]]

\* file.filename = newName; save()
SaveSetName(doc, i, newName) ==
    [doc EXCEPT !.files = [@ EXCEPT ![i] = [@ EXCEPT !.filename = newName]]]

\* ------------------------------------------------------------------- state
VARIABLES
    now,          \* Date.now()
    blobs,        \* the file names present in the upload directory
    everPut,      \* history: the file names multer has ever stored
    classrooms,   \* Classroom documents: id -> [files, v]
    users,        \* User documents: id -> [files (personalNotes), v]
    nextId,       \* the next fresh _id
    req,          \* the requests in flight: position and the locals still read
    last,         \* the response the step just taken has sent, with its request
    acked,        \* history: <<container, _id>> of the uploads / shares answered 200
    removed,      \* history: <<container, _id>> of the deletes answered 200
    sharedRefs,   \* history: the file names a share has published
    overwrote,    \* history: multer has opened a file name that was already on disk
    renamed,      \* history: <<container, _id>> of the renames answered 200
    students      \* Classroom.students: classroom id -> the list of student ids

vars == <<now, blobs, everPut, classrooms, users, nextId, req, last, acked, removed,
          sharedRefs, overwrote, renamed, students>>

IdleReq == [op |-> "none", ver |-> 0, pc |-> "idle", cid |-> "", name |-> <<>>,
            size |-> 0, file |-> <<>>, rec |-> NoRec, fid |-> 0, lv |-> 0,
            idx |-> 0, larr |-> <<>>, existed |-> FALSE, sid |-> ""]

NoAnswer == [op |-> "none", cid |-> "", size |-> 0, file |-> <<>>, fid |-> 0,
             existed |-> FALSE, status |-> 0]

Init ==
    /\ now = 0
    /\ blobs = {}
    /\ everPut = {}
    /\ classrooms = [c \in ClassIds |-> [files |-> <<>>, v |-> 0]]
    /\ users = [u \in UserIds |-> [files |-> <<>>, v |-> 0]]
    /\ nextId = 1
    /\ req = [r \in Reqs |-> IdleReq]
    /\ last = NoAnswer
    /\ acked = {}
    /\ removed = {}
    /\ sharedRefs = {}
    /\ overwrote = FALSE
    /\ renamed = {}
    /\ students = [c \in ClassIds |-> <<>>]

\* a request is taken by the first free handler slot (slots are anonymous)
Free(r) == req[r].pc = "idle" /\ \A q \in Reqs : q < r => req[q].pc # "idle"
\* requests that will still draw an _id
Pending == Cardinality({q \in Reqs : req[q].pc = "handler"})
CanCreate == nextId + Pending <= MaxRecords

Answered(q, status) ==
    [op |-> q.op, cid |-> q.cid, size |-> q.size, file |-> q.file, fid |-> q.fid,
     existed |-> q.existed, status |-> status]

\* the response ends the request
Respond(r, q, status) ==
    /\ req' = [req EXCEPT ![r] = IdleReq]
    /\ last' = Answered(q, status)

\* the handler awaits
Continue(r, q) ==
    /\ req' = [req EXCEPT ![r] = q]
    /\ last' = NoAnswer

Files(doc) == { doc.files[i] : i \in 1 .. Len(doc.files) }
AllFiles ==
    UNION { Files(classrooms[c]) : c \in ClassIds } \cup UNION { Files(users[u]) : u \in UserIds }

Tick ==
    /\ now < MaxTime
    /\ now' = now + 1
    /\ last' = NoAnswer
    /\ UNCHANGED <<blobs, everPut, classrooms, users, nextId, req, acked, removed, sharedRefs, overwrote, renamed, students>>

\* ---------------------------------------------------------------- uploads
\* a middleware that does not notice a failed write and runs the handler
MulterDeaf(r, op, ver, cid, n, size) ==
    LET filename == StorageName(n, now)
        q == [IdleReq EXCEPT !.op = op, !.cid = cid, !.name = n, !.size = size,
                             !.file = filename]
    IN /\ Free(r)
       /\ CanCreate
       /\ IF ver = 1 /\ size > FileSizeLimit
          THEN /\ blobs' = blobs \ {filename}
               /\ everPut' = everPut
               /\ Respond(r, q, ServerError)
          ELSE \E written \in BOOLEAN :
                 /\ blobs' = blobs \cup {filename}
                 /\ everPut' = IF written THEN everPut \cup {filename} ELSE everPut
                 /\ Continue(r, [q EXCEPT !.pc = "handler"])
       /\ overwrote' = (overwrote \/ filename \in blobs)
       /\ UNCHANGED <<now, classrooms, users, nextId, acked, removed, sharedRefs, renamed, students>>

\* a middleware that names the file but leaves the upload directory untouched
MulterLate(r, op, ver, cid, n, size) ==
    LET filename == StorageName(n, now)
        q == [IdleReq EXCEPT !.op = op, !.cid = cid, !.name = n, !.size = size,
                             !.file = filename]
    IN /\ Free(r)
       /\ CanCreate
       /\ IF ver = 1 /\ size > FileSizeLimit
          THEN Respond(r, q, ServerError)
          ELSE Continue(r, [q EXCEPT !.pc = "handler"])
       /\ UNCHANGED <<now, blobs, everPut, classrooms, users, nextId, acked, removed,
                      sharedRefs, overwrote, renamed, students>>

\* upload.single('pdf'): the disk storage names the file and streams it into
\* the upload directory before the route handler runs. With a fileSize limit
\* (v1) a larger file is cut off, its partial file is unlinked and the request
\* ends with multer's LIMIT_FILE_SIZE error; without one (v2, v3) any size is
\* stored. The write stream opens the name whether or not a file has it.
\* When the write stream fails (written = FALSE) multer passes the error on,
\* the route handler never runs and Express answers 500; the file the
\* stream had opened may be left behind (partial).
Multer(r, op, ver, cid, n, size) ==
    LET filename == StorageName(n, now)
        q == [IdleReq EXCEPT !.op = op, !.cid = cid, !.name = n, !.size = size,
                             !.file = filename]
    IN /\ Free(r)
       /\ CanCreate
       /\ IF ver = 1 /\ size > FileSizeLimit
          THEN /\ blobs' = blobs \ {filename}
               /\ everPut' = everPut
               /\ Respond(r, q, ServerError)
          ELSE \E written \in BOOLEAN :
                 IF written
                 THEN /\ blobs' = blobs \cup {filename}
                      /\ everPut' = everPut \cup {filename}
                      /\ Continue(r, [q EXCEPT !.pc = "handler"])
                 ELSE /\ \E partial \in BOOLEAN :
                            blobs' = IF partial THEN blobs \cup {filename} ELSE blobs
                      /\ everPut' = everPut
                      /\ Respond(r, q, ServerError)
       /\ overwrote' = (overwrote \/ filename \in blobs)
       /\ UNCHANGED <<now, classrooms, users, nextId, acked, removed, sharedRefs, renamed, students>>

\* POST /upload/:classId, the middleware
UploadMulter(r) ==
    \E ver \in {1, 2}, cid \in ClassIds \cup {NoClass}, n \in Names, size \in Sizes :
        Multer(r, "upload", ver, cid, n, size)

\* POST /upload-personal/:userId, the middleware
PersonalMulter(r) ==
    \E cid \in UserIds \cup {NoUser}, n \in Names, size \in Sizes :
        Multer(r, "uploadPersonal", 2, cid, n, size)

\* a record that is labelled with the storage name instead of the original name
UploadRecordStored(id, originalname, filename, t) ==
    [id |-> id, filename |-> filename, path |-> StoredPath(filename), uploadDate |-> t]

\* files.push({ filename: req.file.originalname, path: ... }) of an upload;
\* Mongoose draws its _id and its uploadDate (default: Date.now)
UploadRecord(id, originalname, filename, t) ==
    [id |-> id, filename |-> originalname, path |-> StoredPath(filename), uploadDate |-> t]

\* a share that points the new record at a path of its own
SharedRecordOwnPath(id, fileData, t) ==
    [id |-> id, filename |-> fileData.filename,
     path |-> StoredPath(StorageName(fileData.filename, t + 1)), uploadDate |-> t]

\* files.push({ filename: fileData.filename, path: fileData.path,
\*              uploadDate: new Date() }) of a share
SharedRecord(id, fileData, t) ==
    [id |-> id, filename |-> fileData.filename, path |-> fileData.path, uploadDate |-> t]

\* the handler up to its save(): findById, the 404, files.push
PushHandler(r, op, known) ==
    /\ req[r].op = op
    /\ req[r].pc = "handler"
    /\ IF req[r].cid \notin known
       THEN /\ Respond(r, req[r], NotFound)
            /\ nextId' = nextId
       ELSE /\ Continue(r, [req[r] EXCEPT
                                !.pc = "save", !.fid = nextId,
                                !.rec = UploadRecord(nextId, req[r].name, req[r].file, now)])
            /\ nextId' = nextId + 1
    /\ UNCHANGED <<now, blobs, everPut, classrooms, users, acked, removed, sharedRefs, overwrote, renamed, students>>

\* POST /upload/:classId, the handler
UploadHandler(r) == PushHandler(r, "upload", ClassIds)

\* POST /upload-personal/:userId, the handler
PersonalHandler(r) == PushHandler(r, "uploadPersonal", UserIds)

\* await classroom.save() of an upload or a share, and the 200
ClassroomPushSave(r) ==
    /\ req[r].op \in {"upload", "share"}
    /\ req[r].pc = "save"
    /\ classrooms' = [classrooms EXCEPT ![req[r].cid] = SavePush(@, req[r].rec)]
    /\ acked' = acked \cup {<<req[r].cid, req[r].fid>>}
    /\ Respond(r, req[r], OK)
    /\ UNCHANGED <<now, blobs, everPut, users, nextId, removed, sharedRefs, overwrote, renamed, students>>

\* await user.save() of a personal upload, and the 200
PersonalSave(r) ==
    /\ req[r].op = "uploadPersonal"
    /\ req[r].pc = "save"
    /\ users' = [users EXCEPT ![req[r].cid] = SavePush(@, req[r].rec)]
    /\ acked' = acked \cup {<<req[r].cid, req[r].fid>>}
    /\ Respond(r, req[r], OK)
    /\ UNCHANGED <<now, blobs, everPut, classrooms, nextId, removed, sharedRefs, overwrote, renamed, students>>

\* what GET /personal-notes/:userId answers: user.personalNotes
ListPersonal(u) == users[u].files

\* GET /personal-notes/:userId
PersonalNotes(r) ==
    \E cid \in UserIds \cup {NoUser} :
        LET q == [IdleReq EXCEPT !.op = "personalNotes", !.cid = cid]
        IN /\ Free(r)
           /\ Respond(r, q, IF cid \notin UserIds THEN NotFound ELSE OK)
           /\ UNCHANGED <<now, blobs, everPut, classrooms, users, nextId, acked, removed, sharedRefs, overwrote, renamed, students>>

\* ------------------------------------------------------------------ publish
\* the files GET /classes/:userId/:role answers for a classroom
ListClassroom(c) == classrooms[c].files

\* GET /classes/:userId/:role: Classroom.find and the answer
GetClasses(r) ==
    LET q == [IdleReq EXCEPT !.op = "classes"]
    IN /\ Free(r)
       /\ Respond(r, q, OK)
       /\ UNCHANGED <<now, blobs, everPut, classrooms, users, nextId, acked, removed,
                      sharedRefs, overwrote, renamed, students>>

\* POST /share-to-class up to its save(): fileData is a record of a personal
\* list as the client received it from GET /personal-notes
ShareHandler(r) ==
    \E cid \in ClassIds \cup {NoClass}, u \in UserIds :
      \E i \in 1 .. Len(users[u].files) :
        LET fileData == users[u].files[i]
            q == [IdleReq EXCEPT !.op = "share", !.cid = cid, !.name = fileData.filename,
                                 !.file = BlobAt(fileData.path)]
        IN /\ Free(r)
           /\ CanCreate
           /\ IF cid \notin ClassIds
              THEN /\ Respond(r, q, NotFound)
                   /\ nextId' = nextId
                   /\ sharedRefs' = sharedRefs
              ELSE /\ Continue(r, [q EXCEPT !.pc = "save", !.fid = nextId,
                                             !.rec = SharedRecord(nextId, fileData, now)])
                   /\ nextId' = nextId + 1
                   /\ sharedRefs' = sharedRefs \cup {BlobAt(fileData.path)}
           /\ UNCHANGED <<now, blobs, everPut, classrooms, users, acked, removed, overwrote, renamed, students>>

\* ------------------------------------------------------------------- delete
\* the file ids a request can address in a classroom: those of its list, and
\* one that is not in it
FileIds(cid) ==
    IF cid \in ClassIds THEN Ids(classrooms[cid].files) \cup {NoFileId} ELSE {NoFileId}

\* a delete that saves first and leaves the unlink for later
DeleteHandlerLateUnlink(r) ==
    \E ver \in {1, 2, 3}, cid \in ClassIds \cup {NoClass}, ioFail \in BOOLEAN :
      \E fid \in FileIds(cid) :
        LET q == [IdleReq EXCEPT !.op = "delete", !.cid = cid, !.fid = fid]
            doc == classrooms[cid]
            i == IndexOf(doc.files, fid)
            blob == BlobAt(doc.files[i].path)
            exists == blob \in blobs
        IN /\ Free(r)
           /\ ~ioFail
           /\ blobs' = blobs
           /\ IF cid \notin ClassIds
              THEN Respond(r, q, IF ver = 3 THEN ServerError ELSE NotFound)
              ELSE IF i = 0
              THEN Respond(r, q, NotFound)
              ELSE Continue(r, [q EXCEPT !.pc = "save", !.file = blob,
                                         !.existed = exists,
                                         !.ver = IF ver = 1 THEN 1 ELSE 2,
                                         !.lv = IF ver = 1 THEN 0 ELSE doc.v,
                                         !.larr = IF ver = 1 THEN <<>>
                                                  ELSE RemoveAt(doc.files, i)])
           /\ UNCHANGED <<now, everPut, classrooms, users, nextId, acked, removed, sharedRefs, overwrote, renamed, students>>

\* a delete that unlinks without testing that the file exists: unlinkSync
\* throws ENOENT when it does not
DeleteHandlerNoExists(r) ==
    \E ver \in {1, 2, 3}, cid \in ClassIds \cup {NoClass}, ioFail \in BOOLEAN :
      \E fid \in FileIds(cid) :
        LET q == [IdleReq EXCEPT !.op = "delete", !.cid = cid, !.fid = fid]
            doc == classrooms[cid]
            i == IndexOf(doc.files, fid)
            blob == BlobAt(doc.files[i].path)
            exists == blob \in blobs
        IN /\ Free(r)
           /\ IF cid \notin ClassIds
              THEN /\ ~ioFail
                   /\ Respond(r, q, IF ver = 3 THEN ServerError ELSE NotFound)
                   /\ blobs' = blobs
              ELSE IF i = 0
              THEN /\ ~ioFail
                   /\ Respond(r, q, NotFound)
                   /\ blobs' = blobs
              ELSE IF ~exists \/ ioFail
              THEN /\ exists \/ ~ioFail
                   /\ Respond(r, [q EXCEPT !.file = blob, !.existed = exists],
                              IF ver = 1 THEN NoResponse ELSE ServerError)
                   /\ blobs' = blobs
              ELSE /\ blobs' = blobs \ {blob}
                   /\ Continue(r, [q EXCEPT !.pc = "save", !.file = blob,
                                             !.existed = exists,
                                             !.ver = IF ver = 1 THEN 1 ELSE 2,
                                             !.lv = IF ver = 1 THEN 0 ELSE doc.v,
                                             !.larr = IF ver = 1 THEN <<>>
                                                      ELSE RemoveAt(doc.files, i)])
           /\ UNCHANGED <<now, everPut, classrooms, users, nextId, acked, removed, sharedRefs, overwrote, renamed, students>>

\* DELETE /class/:classId/file/:fileId up to its save(). v1 looks the file up
\* with classroom?.files.id() and removes it with file.deleteOne(), outside any
\* try; v2 and v3 use findIndex and splice inside a try, and v3 does not test
\* the classroom. fs.unlinkSync can throw (ioFail): nothing catches it in v1,
\* the catch of v2 and v3 answers 500. The request keeps what its save reads:
\* the _id to pull (ver 1), or the spliced local array and the loaded __v
\* (ver 2, also for v3, whose save is the same).
DeleteHandler(r) ==
    \E ver \in {1, 2, 3}, cid \in ClassIds \cup {NoClass}, ioFail \in BOOLEAN :
      \E fid \in FileIds(cid) :
        LET q == [IdleReq EXCEPT !.op = "delete", !.cid = cid, !.fid = fid]
            doc == classrooms[cid]
            i == IndexOf(doc.files, fid)
            blob == BlobAt(doc.files[i].path)
            exists == blob \in blobs          \* fs.existsSync
        IN /\ Free(r)
           /\ IF cid \notin ClassIds
              THEN /\ ~ioFail
                   /\ Respond(r, q, IF ver = 3 THEN ServerError ELSE NotFound)
                   /\ blobs' = blobs
              ELSE IF i = 0
              THEN /\ ~ioFail
                   /\ Respond(r, q, NotFound)
                   /\ blobs' = blobs
              ELSE IF exists /\ ioFail
              THEN /\ Respond(r, [q EXCEPT !.file = blob, !.existed = exists],
                              IF ver = 1 THEN NoResponse ELSE ServerError)
                   /\ blobs' = blobs
              ELSE /\ ~ioFail
                   /\ blobs' = blobs \ {blob}
                   /\ Continue(r, [q EXCEPT !.pc = "save", !.file = blob,
                                             !.existed = exists,
                                             !.ver = IF ver = 1 THEN 1 ELSE 2,
                                             !.lv = IF ver = 1 THEN 0 ELSE doc.v,
                                             !.larr = IF ver = 1 THEN <<>>
                                                      ELSE RemoveAt(doc.files, i)])
           /\ UNCHANGED <<now, everPut, classrooms, users, nextId, acked, removed, sharedRefs, overwrote, renamed, students>>

\* await classroom.save() of a delete, and the response
DeleteSave(r) ==
    LET doc == classrooms[req[r].cid]
    IN /\ req[r].op = "delete"
       /\ req[r].pc = "save"
       /\ IF req[r].ver = 1
          THEN /\ classrooms' = [classrooms EXCEPT ![req[r].cid] = SavePull(@, req[r].fid)]
               /\ removed' = removed \cup {<<req[r].cid, req[r].fid>>}
               /\ Respond(r, req[r], OK)
          ELSE IF VersionOK(doc, req[r].lv)
          THEN /\ classrooms' = [classrooms EXCEPT ![req[r].cid] =
                                   SaveSetArray(@, req[r].larr)]
               /\ removed' = removed \cup {<<req[r].cid, req[r].fid>>}
               /\ Respond(r, req[r], OK)
          ELSE /\ classrooms' = classrooms
               /\ removed' = removed
               /\ Respond(r, req[r], ServerError)
       /\ UNCHANGED <<now, blobs, everPut, users, nextId, acked, sharedRefs, overwrote, renamed, students>>

\* ------------------------------------------------------------------- rename
\* PUT /class/:classId/file/:fileId (v3) up to its save()
RenameHandler(r) ==
    \E cid \in ClassIds \cup {NoClass}, newName \in NewNames :
      \E fid \in FileIds(cid) :
        LET q == [IdleReq EXCEPT !.op = "rename", !.cid = cid, !.fid = fid,
                                 !.name = newName]
            doc == classrooms[cid]
            i == IndexOf(doc.files, fid)
        IN /\ Free(r)
           /\ IF cid \notin ClassIds THEN Respond(r, q, ServerError)
              ELSE IF i = 0 THEN Respond(r, q, NotFound)
              ELSE Continue(r, [q EXCEPT !.pc = "save", !.lv = doc.v, !.idx = i])
           /\ UNCHANGED <<now, blobs, everPut, classrooms, users, nextId, acked, removed, sharedRefs, overwrote, renamed, students>>

\* await classroom.save() of a rename, and the response
RenameSave(r) ==
    LET doc == classrooms[req[r].cid]
    IN /\ req[r].op = "rename"
       /\ req[r].pc = "save"
       /\ IF VersionOK(doc, req[r].lv)
          THEN /\ classrooms' = [classrooms EXCEPT ![req[r].cid] =
                                   SaveSetName(@, req[r].idx, req[r].name)]
               /\ renamed' = renamed \cup {<<req[r].cid, req[r].fid>>}
               /\ Respond(r, req[r], OK)
          ELSE /\ classrooms' = classrooms
               /\ renamed' = renamed
               /\ Respond(r, req[r], ServerError)
       /\ UNCHANGED <<now, blobs, everPut, users, nextId, acked, removed, sharedRefs, overwrote, students>>

\* ------------------------------------------------------------ specification
Next ==
    \/ Tick
    \/ \E r \in Reqs : UploadMulter(r)
    \/ \E r \in Reqs : UploadHandler(r)
    \/ \E r \in Reqs : PersonalMulter(r)
    \/ \E r \in Reqs : PersonalHandler(r)
    \/ \E r \in Reqs : ClassroomPushSave(r)
    \/ \E r \in Reqs : PersonalSave(r)
    \/ \E r \in Reqs : PersonalNotes(r)
    \/ \E r \in Reqs : GetClasses(r)
    \/ \E r \in Reqs : ShareHandler(r)
    \/ \E r \in Reqs : DeleteHandler(r)
    \/ \E r \in Reqs : DeleteSave(r)
    \/ \E r \in Reqs : RenameHandler(r)
    \/ \E r \in Reqs : RenameSave(r)

Spec == Init /\ [][Next]_vars

\* one request at a time: a request is taken only when none is in flight
SeqNext ==
    /\ Next
    /\ \/ \A r \in Reqs : req[r].pc = "idle"
       \/ now' # now
       \/ \E r \in Reqs : req[r].pc # "idle" /\ req'[r] # req[r]

SpecSeq == Init /\ [][SeqNext]_vars

\* ------------------------------------------------------------- naming runs
\* the original names and the clock values the naming policy is run on
NameChars == {"a", "_", " ", "\t"}
NameInputs == UNION { [1 .. k -> NameChars] : k \in 0 .. MaxNameLen }
Stamps == {0, 7, 10, 42, 105}

\* a server started at any of the clock values
InitName ==
    /\ now \in Stamps
    /\ blobs = {}
    /\ everPut = {}
    /\ classrooms = [c \in ClassIds |-> [files |-> <<>>, v |-> 0]]
    /\ users = [u \in UserIds |-> [files |-> <<>>, v |-> 0]]
    /\ nextId = 1
    /\ req = [r \in Reqs |-> IdleReq]
    /\ last = NoAnswer
    /\ acked = {}
    /\ removed = {}
    /\ sharedRefs = {}
    /\ overwrote = FALSE
    /\ renamed = {}
    /\ students = [c \in ClassIds |-> <<>>]

\* the middleware of the first upload, for every original name
NameNext ==
    /\ blobs = {}
    /\ \E r \in Reqs, n \in NameInputs, cid \in ClassIds :
          Multer(r, "upload", 2, cid, n, FileSizeLimit)

SpecName == InitName /\ [][NameNext]_vars

\* --------------------------------------------------------------------- join
\* classCode.toUpperCase()
ToUpper(code) == [i \in 1 .. Len(code) |-> IF code[i] = "k" THEN "K" ELSE code[i]]

Members(c) == { students[c][i] : i \in 1 .. Len(students[c]) }

\* POST /join-class up to its save(): findOne by code (v1 upper-cases the
\* code it was sent), the 404, the includes test and students.push
JoinHandler(r) ==
    \E ver \in {1, 2}, sid \in StudentIds, code \in CodeInputs :
        LET sought == IF ver = 1 THEN ToUpper(code) ELSE code
            found == { c \in ClassIds : Code(c) = sought }
            q == [IdleReq EXCEPT !.op = "join", !.sid = sid]
        IN /\ Free(r)
           /\ IF found = {}
              THEN Respond(r, [q EXCEPT !.cid = NoClass], NotFound)
              ELSE LET c == CHOOSE d \in found : TRUE
                   IN IF sid \in Members(c)
                      THEN Respond(r, [q EXCEPT !.cid = c], OK)
                      ELSE Continue(r, [q EXCEPT !.cid = c, !.pc = "save"])
           /\ UNCHANGED <<now, blobs, everPut, classrooms, users, nextId, acked, removed,
                          sharedRefs, overwrote, renamed, students>>

\* await classroom.save() of a join: $push of the student id, $inc __v, and
\* the answer
JoinSave(r) ==
    /\ req[r].op = "join"
    /\ req[r].pc = "save"
    /\ students' = [students EXCEPT ![req[r].cid] = Append(@, req[r].sid)]
    /\ classrooms' = [classrooms EXCEPT ![req[r].cid].v = @ + 1]
    /\ Respond(r, req[r], OK)
    /\ UNCHANGED <<now, blobs, everPut, users, nextId, acked, removed, sharedRefs,
                   overwrote, renamed>>

\* the join requests of the server, interleaved
JoinNext ==
    \/ \E r \in Reqs : JoinHandler(r)
    \/ \E r \in Reqs : JoinSave(r)

SpecJoin == Init /\ [][JoinNext]_vars

\* -------------------------------------------------------------------- reset
\* a document deleteMany({}) has removed
Deleted == [files |-> <<>>, v |-> -1]

\* GET /reset, the only bulk deletion of the server: User.deleteMany({}) and
\* Classroom.deleteMany({}) remove every document; v1 then unlinks every file
\* of the upload directory in readdir order, outside any try, so the first
\* unlinkSync that throws ends the loop and the request is never answered
\* (kept: the files the loop has not removed); v2 leaves the directory alone.
Reset(r) ==
    \E ver \in {1, 2}, kept \in SUBSET blobs :
        LET q == [IdleReq EXCEPT !.op = "reset"]
        IN /\ Free(r)
           /\ \A p \in Reqs : req[p].pc = "idle"
           /\ classrooms' = [c \in ClassIds |-> Deleted]
           /\ users' = [u \in UserIds |-> Deleted]
           /\ IF ver = 1
              THEN /\ blobs' = kept
                   /\ Respond(r, q, IF kept = {} THEN OK ELSE NoResponse)
              ELSE /\ kept = blobs
                   /\ blobs' = blobs
                   /\ Respond(r, q, OK)
           /\ UNCHANGED <<now, everPut, nextId, acked, removed, sharedRefs, overwrote, renamed, students>>

\* the server up to a reset: requests one at a time, the wipe ends the run
ResetNext ==
    \/ last.op # "reset" /\ SeqNext
    \/ last.op # "reset" /\ \E r \in Reqs : Reset(r)

SpecReset == Init /\ [][ResetNext]_vars

\* ------------------------------------------------------------------ claims
Uploads == {"upload", "uploadPersonal"}
Quiet == \A r \in Reqs : req[r].pc = "idle"
\* a delete of the record with this id has unlinked the blob and awaits its save
DeleteInProgress(id) ==
    \E r \in Reqs : req[r].op = "delete" /\ req[r].pc = "save" /\ req[r].fid = id
\* request r answers in this step
Answers(r, op) == req[r].op = op /\ req[r].pc = "save" /\ req'[r].pc = "idle"

\* C1: once a share has made a classroom record and a personal record name the
\* same blob, deleting the classroom copy does not remove the blob while the
\* personal record still names it: when the delete is answered 200 the blob of
\* the personal record is on disk.
C1_SharedBlobKept ==
    (last.op = "delete" /\ last.status = OK /\ last.file \in sharedRefs)
        => \A u \in UserIds : \A p \in Files(users[u]) :
              BlobAt(p.path) = last.file => last.file \in blobs

\* C2: every file record of every personal and classroom list names a blob
\* that is on disk, unless the deletion of that record is in progress (stated
\* for the runs in which every upload drew a fresh storage name).
C2_EveryRefHasBlob ==
    ~overwrote => \A x \in AllFiles : BlobAt(x.path) \in blobs \/ DeleteInProgress(x.id)

\* C3: no update is lost: once no request is in flight, every list holds
\* exactly the records whose upload / share was answered 200 and whose delete
\* was not answered 200, and every record whose rename was answered 200
\* carries the new name.
C3_NoLostUpdate ==
    Quiet =>
        /\ \A c \in ClassIds :
              /\ Ids(classrooms[c].files)
                    = { a[2] : a \in { b \in acked : b[1] = c } }
                        \ { a[2] : a \in { b \in removed : b[1] = c } }
              /\ \A x \in Files(classrooms[c]) :
                    <<c, x.id>> \in renamed => x.filename \in NewNames
        /\ \A u \in UserIds :
              Ids(users[u].files) = { a[2] : a \in { b \in acked : b[1] = u } }

\* C4: the blob of an upload is stored before its record is appended: every
\* record of the catalog names a file multer had stored, so stopping an upload
\* at any step leaves at most a blob without a record.
C4_BlobBeforeRecord ==
    /\ \A x \in AllFiles : BlobAt(x.path) \in everPut
    /\ \A r \in Reqs : (req[r].op \in Uploads /\ req[r].pc = "save")
                          => BlobAt(req[r].rec.path) \in everPut

\* C4 witness: an upload stopped between the two writes: its blob is on disk
\* and no record names it.
C4_Witness ==
    \E r \in Reqs :
        /\ req[r].op \in Uploads /\ req[r].pc = "handler"
        /\ req[r].file \in blobs
        /\ \A x \in AllFiles : BlobAt(x.path) # req[r].file

\* C5: an upload answered NotFound (no such classroom / user) leaves no blob
\* written.
C5_NotFoundLeavesNoBlob ==
    (last.op \in Uploads /\ last.status = NotFound) => last.file \notin blobs

\* C6: a delete that addressed an existing record is answered 200 and the
\* record is no longer in the classroom's list, even when the blob delete
\* failed.
C6_DeleteAlwaysRemoves ==
    (last.op = "delete" /\ last.fid # NoFileId)
        => /\ last.status = OK
           /\ last.fid \notin Ids(classrooms[last.cid].files)

\* C7: an upload larger than the 10 MiB cap never gets past the middleware:
\* it is answered with an error, no blob of it is on disk and no record of it
\* is appended.
C7_OversizeRejected ==
    /\ \A r \in Reqs : req[r].op \in Uploads => req[r].size <= FileSizeLimit
    /\ (last.op \in Uploads /\ last.size > FileSizeLimit)
          => (last.status # OK /\ last.file \notin blobs)

\* C8: the save of a share appends exactly one record to the addressed
\* classroom, with the storage name and the original name of the source
\* record, and leaves the personal lists, the other classrooms and the blobs
\* as they were.
C8_PublishFrame ==
    [][\A r \in Reqs : Answers(r, "share") =>
          LET c == req[r].cid
              old == classrooms[c].files
              new == classrooms'[c].files
          IN /\ Len(new) = Len(old) + 1
             /\ SubSeq(new, 1, Len(old)) = old
             /\ BlobAt(new[Len(new)].path) = req[r].file
             /\ new[Len(new)].filename = req[r].name
             /\ new[Len(new)].id \notin Ids(old)
             /\ users' = users
             /\ \A d \in ClassIds \ {c} : classrooms'[d] = classrooms[d]
             /\ blobs' = blobs]_vars

\* C8 witness: a share has been answered 200 and the classroom record names
\* the blob of a personal record that is still listed.
C8_Witness ==
    /\ last.op = "share" /\ last.status = OK
    /\ \E x \in Files(classrooms[last.cid]) :
          /\ x.id = last.fid
          /\ \E u \in UserIds : \E p \in Files(users[u]) :
                p.path = x.path /\ p.filename = x.filename

\* C9: the save of a rename answered 200 changes the filename of the addressed
\* record and nothing else: its path, uploadDate and position, the other
\* records, the other lists and the blobs are as they were.
C9_RenameFrame ==
    [][\A r \in Reqs : (Answers(r, "rename") /\ last'.status = OK) =>
          LET c == req[r].cid
              old == classrooms[c].files
              new == classrooms'[c].files
          IN /\ Len(new) = Len(old)
             /\ req[r].fid \in Ids(old)
             /\ \A i \in 1 .. Len(old) :
                   new[i] = IF old[i].id = req[r].fid
                            THEN [old[i] EXCEPT !.filename = req[r].name]
                            ELSE old[i]
             /\ users' = users
             /\ \A d \in ClassIds \ {c} : classrooms'[d] = classrooms[d]
             /\ blobs' = blobs]_vars

\* C9 witness: a rename has been answered 200 and the record carries the new
\* name.
C9_Witness ==
    /\ last.op = "rename" /\ last.status = OK
    /\ \E x \in Files(classrooms[last.cid]) :
          x.id = last.fid /\ x.filename \in NewNames /\ BlobAt(x.path) \in everPut

\* C10: the save of a personal upload within the cap makes the list GET
\* /personal-notes answers the previous list plus one record, whose filename
\* is the uploaded original name and whose path names a blob on disk.
C10_PersonalUploadListed ==
    [][\A r \in Reqs : \A u \in UserIds :
          (Answers(r, "uploadPersonal") /\ req[r].cid = u /\ req[r].size <= FileSizeLimit) =>
              LET old == ListPersonal(u)
                  new == ListPersonal(u)'
              IN /\ last'.status = OK
                 /\ Len(new) = Len(old) + 1
                 /\ SubSeq(new, 1, Len(old)) = old
                 /\ new[Len(new)].filename = req[r].name
                 /\ new[Len(new)].id \notin Ids(old)
                 /\ BlobAt(new[Len(new)].path) \in blobs']_vars

\* C10 witness: a personal upload within the cap has been answered 200 and its
\* record is listed.
C10_Witness ==
    /\ last.op = "uploadPersonal" /\ last.status = OK /\ last.size <= FileSizeLimit
    /\ \E x \in Files(users[last.cid]) : x.id = last.fid /\ BlobAt(x.path) \in blobs

\* C11: an upload whose blob write fails is answered with an error by the
\* middleware and appends nothing: the step that answers it leaves every
\* classroom and personal list as it was, and no upload gets to its handler
\* or to its save unless multer has stored its blob.
C11_WriteFailureAppendsNothing ==
    [][/\ \A r \in Reqs :
             (req'[r].op \in Uploads /\ req'[r].pc \in {"handler", "save"})
                 => req'[r].file \in everPut'
       /\ (last'.op \in Uploads /\ last'.status = ServerError
              /\ last'.size <= FileSizeLimit)
             => (classrooms' = classrooms /\ users' = users)]_vars

\* C11 witness: an upload within the cap to an existing container has been
\* answered 500 because its blob was not stored, and the container holds no
\* record of it.
C11_Witness ==
    /\ last.op \in Uploads /\ last.status = ServerError
    /\ last.size <= FileSizeLimit /\ last.file \notin everPut
    /\ last.cid \in ClassIds \cup UserIds
    /\ \A x \in AllFiles : BlobAt(x.path) # last.file
    /\ AllFiles # {}

\* C12: two uploads never get the same storage name: two records name the same
\* blob only when a share has published that blob.
C12_FreshStorageNames ==
    \A x \in AllFiles : \A y \in AllFiles :
        (x.id # y.id /\ x.path = y.path) => BlobAt(x.path) \in sharedRefs

\* C14: a rename, a delete or a share that addresses a classroom that does
\* not exist, and a rename or a delete that addresses a file id the classroom
\* does not list, is answered 404.
C14_AbsentIsNotFound ==
    /\ (last.op \in {"rename", "delete"} /\ (last.cid = NoClass \/ last.fid = NoFileId))
          => last.status = NotFound
    /\ (last.op = "share" /\ last.cid = NoClass) => last.status = NotFound

\* C13: tearing classrooms down attempts the blob delete of every file record
\* of their lists and removes the classrooms: after a teardown the classrooms
\* are gone, and when no blob delete has failed (the teardown is answered 200)
\* no blob of their records is left on disk.
C13_TeardownCascades ==
    [][(last'.op = "reset" /\ last.op # "reset") =>
          /\ \A c \in ClassIds : classrooms'[c] = Deleted
          /\ last'.status = OK =>
                \A c \in ClassIds : \A x \in Files(classrooms[c]) :
                    BlobAt(x.path) \notin blobs']_vars

\* C15: deleting a blob that is not on disk raises nothing and changes
\* nothing on disk: a delete never fails in its handler unless the file was
\* there, and a delete of a record whose blob was already absent leaves the
\* upload directory as it was, is answered 200 and removes the record.
C15_AbsentBlobDelete ==
    [][\A r \in Reqs :
          /\ (req[r].pc = "idle" /\ last'.op = "delete" /\ last'.fid # NoFileId
                 /\ last'.cid \in ClassIds /\ last'.status \in {ServerError, NoResponse})
                => last'.existed
          /\ (req[r].pc = "idle" /\ req'[r].op = "delete" /\ req'[r].pc = "save"
                 /\ ~req'[r].existed)
                => blobs' = blobs
          /\ (Answers(r, "delete") /\ ~req[r].existed)
                => /\ last'.status = OK
                   /\ req[r].fid \notin Ids(classrooms'[req[r].cid].files)
                   /\ blobs' = blobs]_vars

\* C15 witness: a delete of a record whose blob was not on disk has been
\* answered 200 and the record is gone.
C15_Witness ==
    /\ last.op = "delete" /\ last.status = OK /\ ~last.existed
    /\ last.fid \notin Ids(classrooms[last.cid].files)
    /\ last.file \in everPut

\* the positions of a name the cleaned name has a character for: the
\* characters that are not whitespace and the first character of every
\* maximal run of whitespace
KeptPositions(s) ==
    { i \in 1 .. Len(s) : ~IsSpace(s[i]) \/ i = 1 \/ ~IsSpace(s[i - 1]) }
\* c is s with every maximal run of whitespace replaced by one underscore
IsCollapsed(s, c) ==
    /\ Len(c) = Cardinality(KeptPositions(s))
    /\ \A i \in KeptPositions(s) :
          c[Cardinality({ j \in KeptPositions(s) : j <= i })]
              = IF IsSpace(s[i]) THEN "_" ELSE s[i]
DigitChars == {"0", "1", "2", "3", "4", "5", "6", "7", "8", "9"}
DigitValue(ch) == CHOOSE k \in 0 .. 9 : Digit(k) = ch
RECURSIVE NumberOf(_)
NumberOf(d) ==
    IF d = <<>> THEN 0
    ELSE 10 * NumberOf(SubSeq(d, 1, Len(d) - 1)) + DigitValue(d[Len(d)])
\* d is the decimal numeral of t
IsDecimal(d, t) ==
    /\ Len(d) >= 1
    /\ \A i \in 1 .. Len(d) : d[i] \in DigitChars
    /\ Len(d) > 1 => d[1] # "0"
    /\ NumberOf(d) = t

\* C16: the storage name of an upload is the decimal numeral of Date.now(),
\* then "-", then the original name with every maximal run of whitespace
\* replaced by one underscore and every other character unchanged.
C16_StorageNameFormat ==
    \A r \in Reqs : req[r].pc = "handler" =>
        \E k \in 1 .. Len(req[r].file) :
            /\ req[r].file[k] = "-"
            /\ IsDecimal(SubSeq(req[r].file, 1, k - 1), now)
            /\ IsCollapsed(req[r].name, SubSeq(req[r].file, k + 1, Len(req[r].file)))

\* C16 witness: the file of a name with a run of two whitespace characters
\* after another character, stored at a clock value of several digits.
C16_Witness ==
    \E r \in Reqs :
        /\ req[r].pc = "handler" /\ req[r].file \in blobs
        /\ now >= 10
        /\ Len(req[r].name) = 3
        /\ ~IsSpace(req[r].name[1]) /\ IsSpace(req[r].name[2]) /\ IsSpace(req[r].name[3])
        /\ Len(req[r].file) = Len(Decimal(now)) + 3

\* the records of old that are still in new are in new in the order they have
\* in old, and the records new has added come after them
KeepsOrder(old, new) ==
    \A i \in 1 .. Len(new) : \A j \in 1 .. Len(new) :
        (i < j /\ new[j].id \in Ids(old))
            => /\ new[i].id \in Ids(old)
               /\ IndexOf(old, new[i].id) < IndexOf(old, new[j].id)

\* C17: listing is read-only and the lists are in insertion order: the step
\* that answers GET /personal-notes or GET /classes changes no list and no
\* blob, and every step keeps the records that survive it in their order and
\* puts the records it adds at the end.
C17_ListsInInsertionOrder ==
    [][/\ last'.op \in {"personalNotes", "classes"}
             => (classrooms' = classrooms /\ users' = users /\ blobs' = blobs)
       /\ \A c \in ClassIds : KeepsOrder(ListClassroom(c), ListClassroom(c)')
       /\ \A u \in UserIds : KeepsOrder(ListPersonal(u), ListPersonal(u)')]_vars

\* C17 witness: a classroom lists two records in the order of their saves,
\* which is not the order in which their requests arrived, and the list has
\* been read.
C17_Witness ==
    /\ last.op = "classes" /\ last.status = OK
    /\ \E c \in ClassIds :
          /\ Len(ListClassroom(c)) = 2
          /\ ListClassroom(c)[1].id > ListClassroom(c)[2].id

\* C18: a delete removes the blob before it removes the record: when its
\* handler reaches the save the blob is off the disk and the record is still
\* listed, and a record leaves a list only in the save of a delete that has
\* been through that step.
C18_UnlinkBeforeRemove ==
    [][/\ \A r \in Reqs :
             (req[r].pc = "idle" /\ req'[r].op = "delete" /\ req'[r].pc = "save")
                 => /\ req'[r].file \notin blobs'
                    /\ classrooms' = classrooms
       /\ \A c \in ClassIds :
             \A id \in Ids(classrooms[c].files) \ Ids(classrooms'[c].files) :
                 \E r \in Reqs : /\ req[r].op = "delete" /\ req[r].pc = "save"
                                 /\ req[r].cid = c /\ req[r].fid = id]_vars

\* C18 witness: a delete stopped between its two steps: the blob it found is
\* gone and the record is still listed.
C18_Witness ==
    \E r \in Reqs :
        /\ req[r].op = "delete" /\ req[r].pc = "save" /\ req[r].existed
        /\ req[r].file \notin blobs
        /\ req[r].fid \in Ids(classrooms[req[r].cid].files)

\* C19: the save of a delete answered 200 removes the addressed record and
\* nothing else: the other records of the classroom keep their fields and
\* their order, and the other classrooms and the personal lists are as they
\* were.
C19_DeleteFrame ==
    [][\A r \in Reqs : (Answers(r, "delete") /\ last'.status = OK) =>
          LET c == req[r].cid
              old == classrooms[c].files
              new == classrooms'[c].files
          IN /\ new = SelectSeq(old, LAMBDA f : f.id # req[r].fid)
             /\ users' = users
             /\ \A d \in ClassIds \ {c} : classrooms'[d] = classrooms[d]]_vars

\* C19 witness: a delete has been answered 200, its record is gone and
\* another record of the classroom is still listed.
C19_Witness ==
    /\ last.op = "delete" /\ last.status = OK
    /\ last.fid \notin Ids(classrooms[last.cid].files)
    /\ classrooms[last.cid].files # <<>>

\* C20: the students of a classroom are a set: after every step each student
\* id is in the students list of a classroom at most once, and a join with a
\* code no classroom has changes no classroom.
C20_StudentsAreASet ==
    [][/\ \A c \in ClassIds :
             \A i \in 1 .. Len(students'[c]) : \A j \in 1 .. Len(students'[c]) :
                 i # j => students'[c][i] # students'[c][j]
       /\ (last'.op = "join" /\ last'.status = NotFound)
             => (students' = students /\ classrooms' = classrooms)]_vars
====
